---- MODULE Spec2Model ----
(***************************************************************************)
(* Snippet-marker analysis scripts.                                        *)
(*                                                                         *)
(*   find-nested-tags (src/unnamed/part_000, lines 46-363):                *)
(*     parseTagEvents  - per line, all [START x] then all [END x] markers  *)
(*     findNestedTags  - stack walk over the events of one file            *)
(*   find-duplicate-start-tags.js:                                         *)
(*     findSubstringTags - ordered pairs of distinct tags, one containing  *)
(*                         the other                                       *)
(*                                                                         *)
(* Text is a sequence of one-character strings; a tag is such a sequence.  *)
(***************************************************************************)
EXTENDS Integers, Sequences, FiniteSets, TLC

VARIABLES
    filePath,       \* findNestedTags: the argument
    content,        \* fs.readFileSync(filePath, 'utf8')
    pc,             \* findNestedTags: "start" | "loop" | "done"
    events,         \* findNestedTags: const events
    idx,            \* events.forEach: 1-based index of the next event
    stack,          \* findNestedTags: const stack
    nestedPairs,    \* findNestedTags: const nestedPairs
    errors,         \* findNestedTags: const errors
    result,         \* findNestedTags: the value returned
    allTags,        \* findSubstringTags: the argument
    spc,            \* findSubstringTags: "start" | "done"
    substringPairs, \* findSubstringTags: the value returned
    entries,        \* the root directory: what fs.readdirSync(rootDir) lists
    mpc,            \* main: "list" | "files" | "extract" | "group" | "done" | "crashed"
    allFiles,       \* main: const allFiles
    fileIdx,        \* main: allFiles.forEach, 1-based index of the next file
    allNested,      \* find-nested-tags main: const allNested
    allErrors,      \* find-nested-tags main: const allErrors
    filesWithTags,  \* find-nested-tags main: let filesWithTags
    regexLastIndex, \* find-duplicate-start-tags: START_TAG_PATTERN.lastIndex
    bySubstring,    \* find-duplicate-start-tags main: const bySubstring
    sortedSubstrings \* find-duplicate-start-tags main: const sortedSubstrings

vars == <<filePath, content, pc, events, idx, stack, nestedPairs, errors,
          result, allTags, spc, substringPairs, entries, mpc, allFiles, fileIdx,
          allNested, allErrors, filesWithTags, regexLastIndex, bySubstring,
          sortedSubstrings>>

nestVars == <<filePath, content, pc, events, idx, stack, nestedPairs, errors, result>>
subVars == <<allTags, spc, substringPairs>>
treeVars == <<entries, mpc, allFiles, fileIdx, allNested, allErrors, filesWithTags,
              regexLastIndex, bySubstring, sortedSubstrings>>

\* the main functions have not been entered
TreeIdle ==
    /\ entries = <<>>
    /\ mpc = "idle"
    /\ allFiles = <<>>
    /\ fileIdx = 1
    /\ allNested = <<>>
    /\ allErrors = <<>>
    /\ filesWithTags = 0
    /\ regexLastIndex = 0
    /\ bySubstring = <<>>
    /\ sortedSubstrings = <<>>

(***************************************************************************)
(* Bounds                                                                  *)
(***************************************************************************)
\* number of pieces (markers and newlines) a file's content is made of
MaxChunks == 6
\* number of tag occurrences handed to findSubstringTags
MaxTags == 3

(***************************************************************************)
(* Text helpers                                                            *)
(***************************************************************************)
NL == "\n"

\* the characters the regular expression class \s and String.trim() treat as
\* white space, among those of the modelled alphabet
IsSpace(c) == c \in {" ", "\t", "\n"}

RECURSIVE Flatten(_)
Flatten(ss) == IF ss = <<>> THEN <<>> ELSE Head(ss) \o Flatten(Tail(ss))

\* String.prototype.split('\n')
RECURSIVE SplitFrom(_, _)
SplitFrom(s, cur) ==
    IF s = <<>> THEN <<cur>>
    ELSE IF Head(s) = NL THEN <<cur>> \o SplitFrom(Tail(s), <<>>)
    ELSE SplitFrom(Tail(s), Append(cur, Head(s)))

SplitLines(s) == SplitFrom(s, <<>>)

\* String.prototype.trim()
RECURSIVE TrimLeft(_)
TrimLeft(s) == IF s # <<>> /\ IsSpace(Head(s)) THEN TrimLeft(Tail(s)) ELSE s

RECURSIVE TrimRight(_)
TrimRight(s) ==
    IF s # <<>> /\ IsSpace(s[Len(s)]) THEN TrimRight(SubSeq(s, 1, Len(s) - 1)) ELSE s

Trim(s) == TrimRight(TrimLeft(s))

(***************************************************************************)
(* The regular expressions /\[START\s+([^\]]+)\]/g and /\[END\s+([^\]]+)\]/g *)
(***************************************************************************)
Keyword(type) ==
    IF type = "START" THEN <<"S", "T", "A", "R", "T">> ELSE <<"E", "N", "D">>

\* length of the run of white space starting at position i
RECURSIVE SpaceRun(_, _)
SpaceRun(s, i) ==
    IF i <= Len(s) /\ IsSpace(s[i]) THEN 1 + SpaceRun(s, i + 1) ELSE 0

\* length of the run of characters other than "]" starting at position i
RECURSIVE NonBracketRun(_, _)
NonBracketRun(s, i) ==
    IF i <= Len(s) /\ s[i] # "]" THEN 1 + NonBracketRun(s, i + 1) ELSE 0

NoMatch == [matched |-> FALSE]

\* An attempt of the pattern at position p of s: "[" and the keyword, then
\* \s+ (greedy, giving back white space when the rest cannot match), then the
\* group [^\]]+ (greedy) and "]".
MatchAt(s, p, type) ==
    LET kw == Keyword(type)
        L == Len(kw)
        ws == p + L + 1
        literal == /\ p + L <= Len(s)
                   /\ s[p] = "["
                   /\ \A i \in 1..L : s[p + i] = kw[i]
        fits(w) == LET g == ws + w
                       n == NonBracketRun(s, g)
                   IN n >= 1 /\ g + n <= Len(s) /\ s[g + n] = "]"
        W == {w \in 1..SpaceRun(s, ws) : fits(w)}
    IN IF literal /\ W # {}
       THEN LET w == CHOOSE x \in W : \A y \in W : y <= x
                g == ws + w
                n == NonBracketRun(s, g)
            IN [matched |-> TRUE, index |-> p, group |-> SubSeq(s, g, g + n - 1),
                lastIndex |-> g + n + 1]
       ELSE NoMatch

\* RegExp.prototype.exec on a global pattern: the leftmost match at or after
\* lastIndex (positions are 1-based here)
RECURSIVE Exec(_, _, _)
Exec(s, lastIndex, type) ==
    IF lastIndex > Len(s) THEN NoMatch
    ELSE LET m == MatchAt(s, lastIndex, type)
         IN IF m.matched THEN m ELSE Exec(s, lastIndex + 1, type)

\* while ((match = regex.exec(line)) !== null) { ... }: the matches in turn
RECURSIVE MatchesFrom(_, _, _)
MatchesFrom(s, lastIndex, type) ==
    LET m == Exec(s, lastIndex, type)
    IN IF m.matched THEN <<m>> \o MatchesFrom(s, m.lastIndex, type) ELSE <<>>

(***************************************************************************)
(* parseTagEvents                                                          *)
(***************************************************************************)
\* variant: the forEach index is used as the line number (the + 1 forgotten)
MakeEventZeroBased(type, m, lineNum, file) ==
    [type |-> type, tag |-> Trim(m.group), line |-> lineNum - 1, file |-> file]

MakeEvent(type, m, lineNum, file) ==
    [type |-> type, tag |-> Trim(m.group), line |-> lineNum, file |-> file]

\* the events pushed by one of the two while loops for one line
ScanLine(line, type, lineNum, file) ==
    LET ms == MatchesFrom(line, 1, type)
    IN [i \in 1..Len(ms) |-> MakeEvent(type, ms[i], lineNum, file)]

\* the body of lines.forEach: the START loop, then the END loop
LineEvents(line, lineNum, file) ==
    ScanLine(line, "START", lineNum, file) \o ScanLine(line, "END", lineNum, file)

RECURSIVE EventsOfLines(_, _, _)
EventsOfLines(lines, index, file) ==
    IF index > Len(lines) THEN <<>>
    ELSE LineEvents(lines[index], index, file) \o EventsOfLines(lines, index + 1, file)

parseTagEvents(text, file) == EventsOfLines(SplitLines(text), 1, file)

(***************************************************************************)
(* findNestedTags                                                          *)
(***************************************************************************)
\* the value returned for a file without events
Null == [isNull |-> TRUE]

Top(stk) == stk[Len(stk)]

\* variant: depth counted before the push (the + 1 forgotten)
NestedPairOfDepthBeforePush(stk, event) ==
    [outer |-> stk[Len(stk)], inner |-> event, depth |-> Len(stk)]

\* variant: the pair built once the event is on the stack
NestedPairOfDepthAfterPush(stk, event) ==
    [outer |-> stk[Len(stk)], inner |-> event, depth |-> Len(stk) + 2]

\* { outer: { ...stack[stack.length - 1] }, inner: { ...event }, depth: stack.length + 1 }
NestedPairOf(stk, event) ==
    [outer |-> Top(stk), inner |-> event, depth |-> Len(stk) + 1]

\* variant: a pair is reported only one level deep
PairsOnStartOneLevel(stk, pairs, event) ==
    IF Len(stk) = 1
    THEN Append(pairs, [outer |-> stk[1], inner |-> event, depth |-> 2])
    ELSE pairs

\* variant: the pairs share one depth counter, so a new pair rewrites the
\* depth of the pairs before it
PairsOnStartSharedDepth(stk, pairs, event) ==
    IF Len(stk) > 0
    THEN Append([i \in DOMAIN pairs |->
                    [outer |-> pairs[i].outer, inner |-> pairs[i].inner,
                     depth |-> Len(stk) + 1]],
                [outer |-> stk[Len(stk)], inner |-> event, depth |-> Len(stk) + 1])
    ELSE pairs

\* variant: the outer of a pair is the outermost open frame
PairsOnStartOutermost(stk, pairs, event) ==
    IF Len(stk) > 0
    THEN Append(pairs, [outer |-> stk[1], inner |-> event, depth |-> Len(stk) + 1])
    ELSE pairs

\* START branch: a pair when something is open already
PairsOnStart(stk, pairs, event) ==
    IF Len(stk) > 0 THEN Append(pairs, NestedPairOf(stk, event)) ELSE pairs

\* variant: a START whose tag is open already is not pushed again
StackOnStartNoDuplicate(stk, event) ==
    IF \E i \in DOMAIN stk : stk[i].tag = event.tag THEN stk ELSE Append(stk, event)

\* START branch: stack.push(event)
StackOnStart(stk, event) == Append(stk, event)

UnmatchedEnd(event) ==
    [type |-> "UNMATCHED_END", tag |-> event.tag, line |-> event.line]

MismatchedEnd(top, event) ==
    [type |-> "MISMATCHED_END", expected |-> top.tag, got |-> event.tag,
     startLine |-> top.line, endLine |-> event.line]

UnclosedStart(unclosed) ==
    [type |-> "UNCLOSED_START", tag |-> unclosed.tag, line |-> unclosed.line]

\* variant: an END met on an empty stack is skipped silently
ErrorsOnEndSilentWhenEmpty(stk, errs, event) ==
    IF Len(stk) = 0 THEN errs
    ELSE IF stk[Len(stk)].tag # event.tag
         THEN Append(errs, MismatchedEnd(stk[Len(stk)], event))
         ELSE errs

\* variant: the leave-open policy's classification, an END whose tag is not
\* open anywhere counts as unmatched
ErrorsOnEndAbsentIsUnmatched(stk, errs, event) ==
    IF \A i \in DOMAIN stk : stk[i].tag # event.tag
    THEN Append(errs, UnmatchedEnd(event))
    ELSE IF stk[Len(stk)].tag # event.tag
         THEN Append(errs, MismatchedEnd(stk[Len(stk)], event))
         ELSE errs

\* variant: an END that closes nothing is recorded as the event itself
ErrorsOnEndRecordsEvent(stk, errs, event) ==
    IF Len(stk) = 0 THEN Append(errs, event)
    ELSE IF stk[Len(stk)].tag # event.tag
         THEN Append(errs, MismatchedEnd(stk[Len(stk)], event))
         ELSE errs

\* variant: the tags are compared without regard to case
ErrorsOnEndCaseFolded(stk, errs, event) ==
    LET lower(c) == IF c = "F" THEN "f" ELSE IF c = "O" THEN "o" ELSE c
        fold(t) == [i \in DOMAIN t |-> lower(t[i])]
    IN IF Len(stk) = 0 THEN Append(errs, UnmatchedEnd(event))
       ELSE IF fold(stk[Len(stk)].tag) # fold(event.tag)
            THEN Append(errs, MismatchedEnd(stk[Len(stk)], event))
            ELSE errs

\* END branch: the error pushed, if any
ErrorsOnEnd(stk, errs, event) ==
    IF Len(stk) = 0 THEN Append(errs, UnmatchedEnd(event))
    ELSE IF Top(stk).tag # event.tag THEN Append(errs, MismatchedEnd(Top(stk), event))
    ELSE errs

\* variant: the top frame stays open when the END names another tag
StackOnEndKeepOnMismatch(stk, event) ==
    IF Len(stk) = 0 \/ stk[Len(stk)].tag # event.tag
    THEN stk
    ELSE SubSeq(stk, 1, Len(stk) - 1)

\* variant: an END pops down to and including the nearest frame of its tag
\* (the top frame alone when no frame has the tag)
StackOnEndPopToMatch(stk, event) ==
    IF Len(stk) = 0 THEN stk
    ELSE LET M == {i \in DOMAIN stk : stk[i].tag = event.tag}
         IN IF M = {} THEN SubSeq(stk, 1, Len(stk) - 1)
            ELSE SubSeq(stk, 1, (CHOOSE i \in M : \A j \in M : j <= i) - 1)

\* END branch: stack.pop() when the stack is not empty
StackOnEnd(stk, event) ==
    IF Len(stk) = 0 THEN stk ELSE SubSeq(stk, 1, Len(stk) - 1)

\* variant: the frames are reported while popping, innermost first
UnclosedErrorsInnermostFirst(stk) ==
    [i \in 1..Len(stk) |-> UnclosedStart(stk[Len(stk) + 1 - i])]

\* stack.forEach(unclosed => errors.push(...)) after the last event
UnclosedErrors(stk) == [i \in 1..Len(stk) |-> UnclosedStart(stk[i])]

Report(file, pairs, errs, evs) ==
    [file |-> file, nestedPairs |-> pairs, errors |-> errs, totalTags |-> Len(evs)]

(***************************************************************************)
(* Inputs                                                                  *)
(***************************************************************************)
Marker(type, tag) == <<"[">> \o Keyword(type) \o <<" ">> \o tag \o <<"]">>

TagA == <<"a">>
TagB == <<"b">>

\* the pieces file contents are built from
Chunks ==
    {Marker("START", TagA), Marker("START", TagB),
     Marker("END", TagA), Marker("END", TagB), <<NL>>}

Contents ==
    {Flatten(cs) : cs \in UNION {[1..n -> Chunks] : n \in 0..MaxChunks}}

FilePaths == {"A.kt"}

(***************************************************************************)
(* The nesting tool on one file                                            *)
(***************************************************************************)
Init ==
    /\ filePath \in FilePaths
    /\ content \in Contents
    /\ pc = "start"
    /\ events = <<>>
    /\ idx = 1
    /\ stack = <<>>
    /\ nestedPairs = <<>>
    /\ errors = <<>>
    /\ result = Null
    /\ allTags = <<>>
    /\ spc = "idle"
    /\ substringPairs = <<>>
    /\ TreeIdle

\* const events = parseTagEvents(filePath); if (events.length === 0) return null;
Begin ==
    /\ pc = "start"
    /\ events' = parseTagEvents(content, filePath)
    /\ pc' = IF Len(events') = 0 THEN "done" ELSE "loop"
    /\ UNCHANGED <<filePath, content, idx, stack, nestedPairs, errors, result>>
    /\ UNCHANGED subVars
    /\ UNCHANGED treeVars

\* events.forEach, event.type === 'START'
OnStart ==
    /\ pc = "loop"
    /\ idx <= Len(events)
    /\ events[idx].type = "START"
    /\ nestedPairs' = PairsOnStart(stack, nestedPairs, events[idx])
    /\ stack' = StackOnStart(stack, events[idx])
    /\ idx' = idx + 1
    /\ UNCHANGED <<filePath, content, pc, events, errors, result>>
    /\ UNCHANGED subVars
    /\ UNCHANGED treeVars

\* events.forEach, event.type === 'END'
OnEnd ==
    /\ pc = "loop"
    /\ idx <= Len(events)
    /\ events[idx].type = "END"
    /\ errors' = ErrorsOnEnd(stack, errors, events[idx])
    /\ stack' = StackOnEnd(stack, events[idx])
    /\ idx' = idx + 1
    /\ UNCHANGED <<filePath, content, pc, events, nestedPairs, result>>
    /\ UNCHANGED subVars
    /\ UNCHANGED treeVars

\* after the last event: the unclosed frames, then the return
Finish ==
    /\ pc = "loop"
    /\ idx > Len(events)
    /\ errors' = errors \o UnclosedErrors(stack)
    /\ result' = Report(filePath, nestedPairs, errors', events)
    /\ pc' = "done"
    /\ UNCHANGED <<filePath, content, events, idx, stack, nestedPairs>>
    /\ UNCHANGED subVars
    /\ UNCHANGED treeVars

Next == Begin \/ OnStart \/ OnEnd \/ Finish

Spec == Init /\ [][Next]_vars

(***************************************************************************)
(* findSubstringTags                                                       *)
(***************************************************************************)
\* UTF-16 code units of the characters tags are made of
CharCode(c) ==
    CASE c = "F" -> 70 [] c = "_" -> 95 [] c = "a" -> 97 [] c = "b" -> 98
      [] c = "f" -> 102 [] c = "o" -> 111 [] c = "r" -> 114 [] c = "z" -> 122
      [] c = "O" -> 79 [] c = "e" -> 101 [] c = "l" -> 108 [] c = "u" -> 117
      [] c = "v" -> 118

\* the order Array.prototype.sort() puts strings in without a compare function
RECURSIVE StringLess(_, _)
StringLess(a, b) ==
    IF b = <<>> THEN FALSE
    ELSE IF a = <<>> THEN TRUE
    ELSE IF Head(a) = Head(b) THEN StringLess(Tail(a), Tail(b))
    ELSE CharCode(Head(a)) < CharCode(Head(b))

RECURSIVE SortStrings(_)
SortStrings(S) ==
    IF S = {} THEN <<>>
    ELSE LET m == CHOOSE x \in S : \A y \in S \ {x} : StringLess(x, y)
         IN <<m>> \o SortStrings(S \ {m})

\* variant: the distinct tags in the order they first occur (.sort() left out)
UniqueTagsInInputOrder(tags) ==
    LET F == {i \in DOMAIN tags : \A j \in 1..(i - 1) : tags[j].tag # tags[i].tag}
    IN [k \in 1..Cardinality(F) |->
           tags[CHOOSE i \in F : Cardinality({j \in F : j <= i}) = k].tag]

\* [...new Set(allTags.map(t => t.tag))].sort()
UniqueTags(tags) == SortStrings({tags[i].tag : i \in DOMAIN tags})

\* String.prototype.indexOf from position p (1-based; 0 when absent)
RECURSIVE IndexOf(_, _, _)
IndexOf(s, sub, p) ==
    IF p + Len(sub) - 1 > Len(s) THEN 0
    ELSE IF SubSeq(s, p, p + Len(sub) - 1) = sub THEN p
    ELSE IndexOf(s, sub, p + 1)

\* String.prototype.includes
Includes(s, sub) == IndexOf(s, sub, 1) # 0

\* variant: only the pairs with i before j are looked at
ConsideredUpperTriangle(i, j) == i < j

\* the test of the two loops: i !== j
Considered(i, j) == i # j

\* the body of the inner loop for (i, j)
PairAt(uniqueTags, i, j) ==
    LET shorter == uniqueTags[i]
        longer == uniqueTags[j]
    IN IF Considered(i, j) /\ Includes(longer, shorter) /\ shorter # longer
       THEN <<[substring |-> shorter, superstring |-> longer]>>
       ELSE <<>>

\* for (i ...) for (j ...): the pairs pushed from (i, j) on
RECURSIVE PairsFrom(_, _, _)
PairsFrom(uniqueTags, i, j) ==
    IF i > Len(uniqueTags) THEN <<>>
    ELSE IF j > Len(uniqueTags) THEN PairsFrom(uniqueTags, i + 1, 1)
    ELSE PairAt(uniqueTags, i, j) \o PairsFrom(uniqueTags, i, j + 1)

findSubstringTags(tags) == PairsFrom(UniqueTags(tags), 1, 1)

Foo == <<"f", "o", "o">>
FooBar == <<"f", "o", "o", "_", "b", "a", "r">>
Baz == <<"b", "a", "z">>

\* the tag names the substring tool is run on; the empty name is what
\* "[START  ]" trims to
TagPool == {Foo, FooBar, Baz, <<"o", "o">>, <<"F", "o", "o">>, <<>>}

TagLists ==
    UNION {[1..n -> [tag : TagPool, file : FilePaths]] : n \in 0..MaxTags}

(***************************************************************************)
(* The substring detector on one list of tags                              *)
(***************************************************************************)
InitSub ==
    /\ filePath \in FilePaths
    /\ content = <<>>
    /\ pc = "idle"
    /\ events = <<>>
    /\ idx = 1
    /\ stack = <<>>
    /\ nestedPairs = <<>>
    /\ errors = <<>>
    /\ result = Null
    /\ allTags \in TagLists
    /\ spc = "start"
    /\ substringPairs = <<>>
    /\ TreeIdle

\* const substringPairs = findSubstringTags(allTags)
FindSubstrings ==
    /\ spc = "start"
    /\ substringPairs' = findSubstringTags(allTags)
    /\ spc' = "done"
    /\ UNCHANGED allTags
    /\ UNCHANGED nestVars
    /\ UNCHANGED treeVars

NextSub == FindSubstrings

SpecSub == InitSub /\ [][NextSub]_vars

(***************************************************************************)
(* Properties of findNestedTags                                            *)
(***************************************************************************)
\* the event events.forEach is about to hand to the callback
AtStart == pc = "loop" /\ idx <= Len(events) /\ events[idx].type = "START"
AtEnd == pc = "loop" /\ idx <= Len(events) /\ events[idx].type = "END"

Last(seq) == seq[Len(seq)]
Count(seq, type) == Cardinality({i \in DOMAIN seq : seq[i].type = type})

\* C1: a START event met with n frames open appends exactly one NestedPair
\* (outer = the top frame, inner = the event, depth = n + 1) when n > 0 and none
\* when n = 0; the event is pushed in both cases, whatever its tag, so the
\* stack has n + 1 frames, and no error is recorded.
C1_StartEmitsPairAndPushes ==
    [][AtStart =>
         LET E == events[idx]
             n == Len(stack)
         IN /\ n > 0 => nestedPairs' =
                   Append(nestedPairs, [outer |-> stack[n], inner |-> E, depth |-> n + 1])
            /\ n = 0 => nestedPairs' = nestedPairs
            /\ stack' = Append(stack, E)
            /\ Len(stack') = n + 1
            /\ errors' = errors]_vars

\* a START with the tag of the frame below it has been pushed and paired
C1_Witness ==
    /\ pc = "loop"
    /\ idx > 1
    /\ Len(stack) >= 2
    /\ events[idx - 1] = Last(stack)
    /\ stack[Len(stack) - 1].tag = Last(stack).tag
    /\ nestedPairs # <<>>
    /\ Last(nestedPairs).inner = Last(stack)
    /\ Last(nestedPairs).depth = Len(stack)

\* C2: an END event met while the top frame has another tag appends exactly one
\* MISMATCHED_END (expected = top.tag, got = the END's tag, startLine = top.line,
\* endLine = the END's line) and pops the top frame all the same; a file whose
\* events are a START then an END of another tag ends with exactly that one
\* error, an empty stack and no UNCLOSED_START.
C2_MismatchedEndPops ==
    [][/\ (AtEnd /\ stack # <<>> /\ Last(stack).tag # events[idx].tag) =>
            LET E == events[idx]
                top == Last(stack)
            IN /\ errors' = Append(errors,
                      [type |-> "MISMATCHED_END", expected |-> top.tag, got |-> E.tag,
                       startLine |-> top.line, endLine |-> E.line])
               /\ stack' = SubSeq(stack, 1, Len(stack) - 1)
               /\ nestedPairs' = nestedPairs
       /\ (/\ pc = "loop" /\ pc' = "done"
           /\ Len(events) = 2
           /\ events[1].type = "START" /\ events[2].type = "END"
           /\ events[1].tag # events[2].tag) =>
            /\ stack' = <<>>
            /\ result'.errors =
                   <<[type |-> "MISMATCHED_END", expected |-> events[1].tag,
                      got |-> events[2].tag, startLine |-> events[1].line,
                      endLine |-> events[2].line]>>
            /\ Count(result'.errors, "UNCLOSED_START") = 0]_vars

\* the file [START a] [END b] has been processed to the end
C2_Witness ==
    /\ pc = "done"
    /\ Len(events) = 2
    /\ events[1].type = "START" /\ events[1].tag = TagA
    /\ events[2].type = "END" /\ events[2].tag = TagB
    /\ stack = <<>>
    /\ Len(result.errors) = 1
    /\ result.errors[1].type = "MISMATCHED_END"

\* C3: an END event met on an empty stack appends exactly one UNMATCHED_END
\* with the END's tag and line, leaves the stack empty and nestedPairs as they
\* are; a file whose only event is an END yields that one error and no other.
C3_UnmatchedEndOnEmptyStack ==
    [][/\ (AtEnd /\ stack = <<>>) =>
            /\ errors' = Append(errors,
                   [type |-> "UNMATCHED_END", tag |-> events[idx].tag,
                    line |-> events[idx].line])
            /\ stack' = <<>>
            /\ nestedPairs' = nestedPairs
       /\ (/\ pc = "loop" /\ pc' = "done"
           /\ Len(events) = 1
           /\ events[1].type = "END") =>
            result'.errors =
                <<[type |-> "UNMATCHED_END", tag |-> events[1].tag,
                   line |-> events[1].line]>>]_vars

\* a file whose only event is an END has been processed to the end
C3_Witness ==
    /\ pc = "done"
    /\ Len(events) = 1
    /\ events[1].type = "END"
    /\ Len(result.errors) = 1
    /\ result.errors[1].type = "UNMATCHED_END"
    /\ result.nestedPairs = <<>>

\* C4: in the result, the frames left on the stack after the last event are
\* reported as UNCLOSED_START errors, one per frame with its tag and line, in
\* push order, after every error of an END event; so the result holds no
\* UNCLOSED_START exactly when the stack is empty after the last event.
C4_UnclosedStartsLastInPushOrder ==
    (pc = "done" /\ result # Null) =>
        LET errs == result.errors
            k == Len(stack)
            m == Len(errs)
        IN /\ m >= k
           /\ \A i \in 1..k :
                  errs[m - k + i] =
                      [type |-> "UNCLOSED_START", tag |-> stack[i].tag,
                       line |-> stack[i].line]
           /\ \A i \in 1..(m - k) :
                  errs[i].type \in {"UNMATCHED_END", "MISMATCHED_END"}
           /\ Count(errs, "UNCLOSED_START") = 0 <=> stack = <<>>

\* two different frames are left open and an END has produced an error
C4_Witness ==
    /\ pc = "done"
    /\ result # Null
    /\ Len(stack) = 2
    /\ stack[1] # stack[2]
    /\ Len(result.errors) > Len(stack)
    /\ Count(result.errors, "UNCLOSED_START") = 2

\* the event sequence is well nested: every END names the innermost open START
\* and nothing is left open (open: the tags of the open regions)
RECURSIVE WellNestedFrom(_, _)
WellNestedFrom(evs, open) ==
    IF evs = <<>> THEN open = <<>>
    ELSE IF Head(evs).type = "START"
         THEN WellNestedFrom(Tail(evs), Append(open, Head(evs).tag))
         ELSE /\ open # <<>>
              /\ open[Len(open)] = Head(evs).tag
              /\ WellNestedFrom(Tail(evs), SubSeq(open, 1, Len(open) - 1))

WellNested(evs) == WellNestedFrom(evs, <<>>)

\* the STARTs of a well nested sequence opened while another region was open
RECURSIVE NestedStarts(_, _)
NestedStarts(evs, open) ==
    IF evs = <<>> THEN <<>>
    ELSE IF Head(evs).type = "START"
         THEN (IF open > 0 THEN <<Head(evs)>> ELSE <<>>)
                  \o NestedStarts(Tail(evs), open + 1)
         ELSE NestedStarts(Tail(evs), open - 1)

\* the event sequence [START a] [START b] [END b] [END a]
IsABBA(evs) ==
    /\ Len(evs) = 4
    /\ evs[1].type = "START" /\ evs[1].tag = TagA
    /\ evs[2].type = "START" /\ evs[2].tag = TagB
    /\ evs[3].type = "END" /\ evs[3].tag = TagB
    /\ evs[4].type = "END" /\ evs[4].tag = TagA

\* C5: for a well nested event sequence the result has no error and exactly one
\* NestedPair for each START opened while another region was open; for
\* [START a] [START b] [END b] [END a] that is the one pair (a, b) of depth 2.
C5_WellNestedHasNoError ==
    (pc = "done" /\ result # Null /\ WellNested(events)) =>
        /\ result.errors = <<>>
        /\ [i \in DOMAIN result.nestedPairs |-> result.nestedPairs[i].inner]
               = NestedStarts(events, 0)
        /\ IsABBA(events) =>
               result.nestedPairs =
                   <<[outer |-> events[1], inner |-> events[2], depth |-> 2]>>

\* [START a] [START b] [END b] [END a] has been processed to the end
C5_Witness ==
    /\ pc = "done"
    /\ IsABBA(events)
    /\ result.errors = <<>>
    /\ Len(result.nestedPairs) = 1
    /\ result.nestedPairs[1].outer.tag = TagA
    /\ result.nestedPairs[1].inner.tag = TagB

(***************************************************************************)
(* Properties of parseTagEvents                                            *)
(***************************************************************************)
\* two lists of matches of one line, merged by the position of each match
RECURSIVE MergeByIndex(_, _)
MergeByIndex(a, b) ==
    IF a = <<>> THEN b
    ELSE IF b = <<>> THEN a
    ELSE IF Head(a).m.index < Head(b).m.index
         THEN <<Head(a)>> \o MergeByIndex(Tail(a), b)
         ELSE <<Head(b)>> \o MergeByIndex(a, Tail(b))

TypedMatches(line, type) ==
    LET ms == MatchesFrom(line, 1, type)
    IN [i \in 1..Len(ms) |-> [type |-> type, m |-> ms[i]]]

\* the markers of a line, of either kind, in the order of their position
LeftToRightLineEvents(line, lineNum, file) ==
    LET ms == MergeByIndex(TypedMatches(line, "START"), TypedMatches(line, "END"))
    IN [i \in 1..Len(ms) |-> MakeEvent(ms[i].type, ms[i].m, lineNum, file)]

RECURSIVE LeftToRightFrom(_, _, _)
LeftToRightFrom(lines, index, file) ==
    IF index > Len(lines) THEN <<>>
    ELSE LeftToRightLineEvents(lines[index], index, file)
             \o LeftToRightFrom(lines, index + 1, file)

LeftToRightEvents(text, file) == LeftToRightFrom(SplitLines(text), 1, file)

\* C6: the events parseTagEvents returns are, line by line, the markers of
\* either kind in left-to-right order of their position in the line.
C6_EventsLeftToRight ==
    pc \in {"loop", "done"} => events = LeftToRightEvents(content, filePath)

(***************************************************************************)
(* Properties of findNestedTags: END classification and depth              *)
(***************************************************************************)
TagOpen(stk, tag) == \E i \in DOMAIN stk : stk[i].tag = tag

\* C7 as stated: an END event whose tag is the tag of no frame on the stack is
\* reported as UNMATCHED_END, on an empty stack and on a non-empty one alike.
C7_AbsentTagIsUnmatched ==
    [][(AtEnd /\ ~TagOpen(stack, events[idx].tag)) =>
          errors' = Append(errors,
              [type |-> "UNMATCHED_END", tag |-> events[idx].tag,
               line |-> events[idx].line])]_vars

\* C7 as amended: an END event whose tag is the tag of no frame on the stack is
\* reported as UNMATCHED_END when the stack is empty, and as MISMATCHED_END
\* against the top frame, which is popped, when the stack is not empty.
C7_AbsentTagUnmatchedOrMismatched ==
    [][(AtEnd /\ ~TagOpen(stack, events[idx].tag)) =>
          IF stack = <<>>
          THEN /\ errors' = Append(errors,
                      [type |-> "UNMATCHED_END", tag |-> events[idx].tag,
                       line |-> events[idx].line])
               /\ stack' = <<>>
          ELSE /\ errors' = Append(errors,
                      [type |-> "MISMATCHED_END", expected |-> Last(stack).tag,
                       got |-> events[idx].tag, startLine |-> Last(stack).line,
                       endLine |-> events[idx].line])
               /\ Len(stack') = Len(stack) - 1]_vars

\* an END whose tag was open nowhere has just been met with a frame still
\* open below the one it closed
C7_Witness ==
    /\ pc = "loop"
    /\ idx > 1
    /\ events[idx - 1].type = "END"
    /\ stack # <<>>
    /\ ~TagOpen(stack, events[idx - 1].tag)
    /\ errors # <<>>
    /\ Last(errors).type = "MISMATCHED_END"
    /\ Last(errors).got = events[idx - 1].tag
    /\ Last(errors).expected # events[idx - 1].tag
    /\ Last(errors).endLine = events[idx - 1].line

\* the number of regions open after the events evs, an END closing one open
\* region if there is one
RECURSIVE OpenAfter(_, _)
OpenAfter(evs, open) ==
    IF evs = <<>> THEN open
    ELSE IF Head(evs).type = "START" THEN OpenAfter(Tail(evs), open + 1)
    ELSE OpenAfter(Tail(evs), IF open > 0 THEN open - 1 ELSE 0)

\* the pairs a step appends
NewPairs == {nestedPairs'[i] : i \in DOMAIN nestedPairs' \ DOMAIN nestedPairs}

\* C9: the depth of a NestedPair is at most the number of STARTs up to and
\* including its inner event that have not been closed before it.
C9_DepthAtMostOpenStarts ==
    [][AtStart =>
         \A p \in NewPairs :
             /\ p.inner = events[idx]
             /\ p.depth <= OpenAfter(SubSeq(events, 1, idx), 0)]_vars

\* a pair has been emitted for the third START of a file, one region having
\* been closed before it
C9_Witness ==
    /\ pc = "loop"
    /\ idx > 1
    /\ events[idx - 1].type = "START"
    /\ Count(SubSeq(events, 1, idx - 1), "START") = 3
    /\ Count(SubSeq(events, 1, idx - 1), "END") = 1
    /\ nestedPairs # <<>>
    /\ Last(nestedPairs).inner = events[idx - 1]
    /\ Last(nestedPairs).depth = 2

\* C10: every NestedPair has depth >= 2, its depth being the number of regions
\* open right after its inner START is opened; a START inside exactly one open
\* region has depth 2, and a START opened with nothing open is the inner of no
\* pair.
C10_DepthCountsOpenRegions ==
    [][AtStart =>
         /\ Len(stack) = 0 => NewPairs = {}
         /\ Len(stack) >= 1 => Len(nestedPairs') = Len(nestedPairs) + 1
         /\ \A p \in NewPairs :
                /\ p.depth = Len(stack')
                /\ p.depth = OpenAfter(SubSeq(events, 1, idx), 0)
                /\ Len(stack) = 1 => p.depth = 2
         /\ \A i \in DOMAIN nestedPairs' : nestedPairs'[i].depth >= 2]_vars

\* three regions are open, the second and the third having been paired
C10_Witness ==
    /\ pc = "loop"
    /\ Len(stack) = 3
    /\ Len(nestedPairs) >= 2
    /\ Last(nestedPairs).inner = Last(stack)
    /\ Last(nestedPairs).depth = 3
    /\ \E i \in DOMAIN nestedPairs :
           nestedPairs[i].inner = stack[2] /\ nestedPairs[i].depth = 2

(***************************************************************************)
(* Properties of findSubstringTags                                         *)
(***************************************************************************)
\* t has s as a contiguous run of characters
Contains(t, s) ==
    \E i \in 1..(Len(t) + 1) : \E j \in (i - 1)..Len(t) : SubSeq(t, i, j) = s

TagNames(tags) == {tags[i].tag : i \in DOMAIN tags}

ExpectedPairs(names) ==
    {[substring |-> x, superstring |-> y] :
         <<x, y>> \in {q \in names \X names : q[1] # q[2] /\ Contains(q[2], q[1])}}

\* C8: the list returned holds, once each, the ordered pairs (s, t) of distinct
\* tag names of the collection with s a contiguous part of t, and nothing else;
\* for {foo, foo_bar, baz} it is the one pair (foo, foo_bar).
C8_ExactlyTheSubstringPairs ==
    spc = "done" =>
        LET names == TagNames(allTags)
        IN /\ {substringPairs[i] : i \in DOMAIN substringPairs} = ExpectedPairs(names)
           /\ Len(substringPairs) = Cardinality(ExpectedPairs(names))
           /\ names = {Foo, FooBar, Baz} =>
                  substringPairs = <<[substring |-> Foo, superstring |-> FooBar]>>

\* the detector has run on foo, foo_bar and baz
C8_Witness ==
    /\ spc = "done"
    /\ TagNames(allTags) = {Foo, FooBar, Baz}
    /\ substringPairs = <<[substring |-> Foo, superstring |-> FooBar]>>

(***************************************************************************)
(* The file tree: getAllFiles and fs.readFileSync                          *)
(*                                                                         *)
(* The root directory holds regular files, empty directories and entries   *)
(* whose fs.statSync fails (a dangling symbolic link); a path is the       *)
(* sequence of its segments.                                               *)
(***************************************************************************)
\* number of entries of the root directory
MaxFiles == 3

RootDir == "root"

\* the names getAllFiles skips
SkippedNames == {"node_modules", ".git", "build", ".gradle"}

\* path.join(dirPath, file)
JoinPath(dirPath, file) == <<dirPath, file>>

\* path.relative(rootDir, file)
RelativePath(rootDir, file) == Tail(file)

\* the entries of a directory, named by their position unless they carry a name
NamedEntries(opts) ==
    [i \in DOMAIN opts |->
        [name |-> IF opts[i].kind = "skipped" THEN "node_modules" ELSE ToString(i),
         kind |-> opts[i].kind, text |-> opts[i].text]]

\* the directory listings of up to MaxFiles entries taken from opts
Listings(opts) ==
    {NamedEntries(es) : es \in UNION {[1..n -> opts] : n \in 0..MaxFiles}}

\* files.forEach of getAllFiles from entry i on: threw when fs.statSync does
RECURSIVE ListFilesFrom(_, _, _, _)
ListFilesFrom(dirPath, es, i, arrayOfFiles) ==
    IF i > Len(es) THEN [threw |-> FALSE, files |-> arrayOfFiles]
    ELSE IF es[i].name \in SkippedNames
         THEN ListFilesFrom(dirPath, es, i + 1, arrayOfFiles)
    ELSE IF es[i].kind = "nostat" THEN [threw |-> TRUE, files |-> arrayOfFiles]
    ELSE IF es[i].kind = "dir" THEN ListFilesFrom(dirPath, es, i + 1, arrayOfFiles)
    ELSE ListFilesFrom(dirPath, es, i + 1,
                       Append(arrayOfFiles, JoinPath(dirPath, es[i].name)))

getAllFiles(dirPath, es) == ListFilesFrom(dirPath, es, 1, <<>>)

EntryAt(es, path) == es[CHOOSE i \in DOMAIN es : es[i].name = path[2]]

\* fs.readFileSync(filePath, 'utf8')
ReadFileSync(es, path) ==
    IF EntryAt(es, path).kind = "unreadable"
    THEN [threw |-> TRUE]
    ELSE [threw |-> FALSE, text |-> EntryAt(es, path).text]

\* parseTagEvents with its try / catch: no event for a file that cannot be read
ParseFile(es, path) ==
    LET r == ReadFileSync(es, path)
    IN IF r.threw THEN <<>> ELSE parseTagEvents(r.text, path)

(***************************************************************************)
(* findNestedTags as main calls it, and main of find-nested-tags           *)
(***************************************************************************)
\* variant: one stack kept across the calls
NewStackReused(previous) == previous

\* const stack = []
NewStack(previous) == <<>>

\* variant: a report is built for a file without events too
ReturnsNullNever(evs) == FALSE

\* if (events.length === 0) return null
ReturnsNull(evs) == Len(evs) = 0

\* events.forEach from event i on
RECURSIVE WalkEvents(_, _, _, _, _)
WalkEvents(evs, i, stk, pairs, errs) ==
    IF i > Len(evs) THEN [stack |-> stk, nestedPairs |-> pairs, errors |-> errs]
    ELSE IF evs[i].type = "START"
         THEN WalkEvents(evs, i + 1, StackOnStart(stk, evs[i]),
                         PairsOnStart(stk, pairs, evs[i]), errs)
         ELSE WalkEvents(evs, i + 1, StackOnEnd(stk, evs[i]), pairs,
                         ErrorsOnEnd(stk, errs, evs[i]))

\* return { file, nestedPairs, errors, totalTags } after the walk w
ResultOfWalk(path, evs, w) ==
    [result |-> Report(path, w.nestedPairs, w.errors \o UnclosedErrors(w.stack), evs),
     events |-> evs, stack |-> w.stack]

\* findNestedTags once parseTagEvents has returned evs
ResultOfEvents(path, evs, previous) ==
    IF ReturnsNull(evs)
    THEN [result |-> Null, events |-> evs, stack |-> previous]
    ELSE ResultOfWalk(path, evs, WalkEvents(evs, 1, NewStack(previous), <<>>, <<>>))

\* findNestedTags(path): the value returned, with the events and the stack the
\* call ends with (previous: what the stack variable held before the call)
findNestedTags(es, path, previous) ==
    ResultOfEvents(path, ParseFile(es, path), previous)

\* variant: a finding equal to one already listed is not listed again
RECURSIVE PushAllDistinct(_, _)
PushAllDistinct(all, items) ==
    IF items = <<>> THEN all
    ELSE PushAllDistinct(
             IF \E i \in DOMAIN all : all[i] = Head(items)
             THEN all ELSE Append(all, Head(items)),
             Tail(items))

\* all.push(...items)
PushAll(all, items) == all \o items

\* result.errors.map(e => ({ ...e, file: path.relative(rootDir, file) })), and
\* the same for result.nestedPairs
WithFile(items, file) ==
    [i \in DOMAIN items |-> [file |-> RelativePath(RootDir, file)] @@ items[i]]

\* if (result && result.totalTags > 0)
HasTags(res) == res # Null /\ res.totalTags > 0

Unmarked == <<"x">>
OpenA == Marker("START", TagA)
TwoEnds == Marker("END", TagA) \o Marker("END", TagA)
NestedAB ==
    Marker("START", TagA) \o <<NL>> \o Marker("START", TagB) \o <<NL>>
        \o Marker("END", TagB) \o <<NL>> \o Marker("END", TagA)
OpenAB == Marker("START", TagA) \o <<NL>> \o Marker("START", TagB)

\* what the root directory of a scan may hold
ScanEntries ==
    [kind : {"file"}, text : {Unmarked, OpenA, TwoEnds, NestedAB, OpenAB}]
        \cup [kind : {"unreadable", "nostat", "skipped", "dir"}, text : {<<>>}]

NestIdle ==
    /\ filePath = ""
    /\ content = <<>>
    /\ pc = "idle"
    /\ events = <<>>
    /\ idx = 1
    /\ stack = <<>>
    /\ nestedPairs = <<>>
    /\ errors = <<>>
    /\ result = Null

SubIdle ==
    /\ allTags = <<>>
    /\ spc = "idle"
    /\ substringPairs = <<>>

InitScan ==
    /\ NestIdle
    /\ SubIdle
    /\ entries \in Listings(ScanEntries)
    /\ mpc = "list"
    /\ allFiles = <<>>
    /\ fileIdx = 1
    /\ allNested = <<>>
    /\ allErrors = <<>>
    /\ filesWithTags = 0
    /\ regexLastIndex = 0
    /\ bySubstring = <<>>
    /\ sortedSubstrings = <<>>

scanFrame == <<filePath, content, pc, idx, nestedPairs, errors, regexLastIndex,
               bySubstring, sortedSubstrings>>

\* const allFiles = getAllFiles(rootDir): an exception of fs.statSync is caught
\* nowhere and ends the run
ListFiles ==
    /\ mpc = "list"
    /\ LET r == getAllFiles(RootDir, entries)
       IN IF r.threw
          THEN mpc' = "crashed" /\ UNCHANGED allFiles
          ELSE mpc' = "files" /\ allFiles' = r.files
    /\ UNCHANGED <<entries, fileIdx, allNested, allErrors, filesWithTags>>
    /\ UNCHANGED <<events, stack, result>>
    /\ UNCHANGED scanFrame
    /\ UNCHANGED subVars

\* allFiles.forEach(file => { const result = findNestedTags(file); ... })
ScanFile ==
    /\ mpc = "files"
    /\ fileIdx <= Len(allFiles)
    /\ \E file \in {allFiles[fileIdx]} :
       \E r \in {findNestedTags(entries, file, stack)} :
          /\ result' = r.result
          /\ events' = r.events
          /\ stack' = r.stack
          /\ IF HasTags(r.result)
             THEN /\ filesWithTags' = filesWithTags + 1
                  /\ allNested' = PushAll(allNested, WithFile(r.result.nestedPairs, file))
                  /\ allErrors' = PushAll(allErrors, WithFile(r.result.errors, file))
             ELSE UNCHANGED <<filesWithTags, allNested, allErrors>>
    /\ fileIdx' = fileIdx + 1
    /\ UNCHANGED <<entries, mpc, allFiles>>
    /\ UNCHANGED scanFrame
    /\ UNCHANGED subVars

\* after the last file: the report is printed
ScanReport ==
    /\ mpc = "files"
    /\ fileIdx > Len(allFiles)
    /\ mpc' = "done"
    /\ UNCHANGED <<entries, allFiles, fileIdx, allNested, allErrors, filesWithTags>>
    /\ UNCHANGED <<events, stack, result>>
    /\ UNCHANGED scanFrame
    /\ UNCHANGED subVars

NextScan == ListFiles \/ ScanFile \/ ScanReport

SpecScan == InitScan /\ [][NextScan]_vars

(***************************************************************************)
(* Properties of findNestedTags: termination                               *)
(***************************************************************************)
StructuralErrorTypes == {"UNMATCHED_END", "MISMATCHED_END", "UNCLOSED_START"}

\* a step of findNestedTags can be taken: the parse, the callback for the
\* next event, or the return after the last one
CanStep ==
    \/ pc = "start"
    \/ pc = "loop" /\ idx <= Len(events) /\ events[idx].type \in {"START", "END"}
    \/ pc = "loop" /\ idx > Len(events)

\* C16: whatever the event sequence, findNestedTags never stops before its
\* return (every state short of "done" has a next step), has handed the events
\* before its index to the callback once each, in sequence order, ends right
\* after the last event, and its errors are structural errors.
C16_TerminatesWithStructuralErrors ==
    /\ pc = "done" \/ CanStep
    /\ idx <= Len(events) + 1
    /\ \A i \in DOMAIN errors : errors[i].type \in StructuralErrorTypes
    /\ pc = "loop" =>
           [stack |-> stack, nestedPairs |-> nestedPairs, errors |-> errors]
               = WalkEvents(SubSeq(events, 1, idx - 1), 1, <<>>, <<>>, <<>>)
    /\ (pc = "done" /\ events # <<>>) =>
           /\ idx = Len(events) + 1
           /\ result # Null
           /\ result.errors = errors
           /\ result.totalTags = Len(events)

\* a malformed file (an END matching nothing, a crossed END, an unclosed
\* START) has been processed to the end
C16_Witness ==
    /\ pc = "done"
    /\ result # Null
    /\ Count(result.errors, "UNMATCHED_END") >= 1
    /\ Count(result.errors, "MISMATCHED_END") >= 1
    /\ Count(result.errors, "UNCLOSED_START") >= 1

(***************************************************************************)
(* Properties of main of find-nested-tags                                  *)
(***************************************************************************)
\* main is about to hand the next file to findNestedTags
AtFile == mpc = "files" /\ fileIdx <= Len(allFiles)

\* the directory entry of the k-th file of the scan
FileEntry(k) == EntryAt(entries, allFiles[k])

\* no line of the text holds a [START x] or [END x] marker
NoMarker(text) ==
    \A l \in DOMAIN SplitLines(text) :
        \A p \in DOMAIN SplitLines(text)[l] :
            /\ ~MatchAt(SplitLines(text)[l], p, "START").matched
            /\ ~MatchAt(SplitLines(text)[l], p, "END").matched

\* C14: for a file whose content holds no marker findNestedTags returns null,
\* and the file adds no nested pair, no error and nothing to the count of
\* files with tags, whatever the other files of the scan are.
C14_NoMarkerNoReport ==
    [][(/\ AtFile
        /\ FileEntry(fileIdx).kind = "file"
        /\ NoMarker(FileEntry(fileIdx).text)) =>
           /\ result' = Null
           /\ allNested' = allNested
           /\ allErrors' = allErrors
           /\ filesWithTags' = filesWithTags]_vars

\* a file without marker has been scanned after files that had findings
C14_Witness ==
    /\ mpc = "files"
    /\ fileIdx > 1
    /\ FileEntry(fileIdx - 1).kind = "file"
    /\ FileEntry(fileIdx - 1).text = Unmarked
    /\ result = Null
    /\ filesWithTags >= 1
    /\ allErrors # <<>>
    /\ allNested # <<>>

\* C15: a file that cannot be read does not end the scan: it yields no event
\* and no finding, and the scan goes on to its report.
C15_ReadFailureStaysPerFile ==
    /\ mpc # "crashed"
    /\ (/\ mpc = "files"
        /\ fileIdx > 1
        /\ FileEntry(fileIdx - 1).kind = "unreadable") =>
           events = <<>> /\ result = Null

\* what findNestedTags returns for a file processed on its own
AloneResult(path) ==
    LET evs == ParseFile(entries, path)
        w == WalkEvents(evs, 1, <<>>, <<>>, <<>>)
    IN IF evs = <<>> THEN Null
       ELSE [file |-> path, nestedPairs |-> w.nestedPairs,
             errors |-> w.errors \o [i \in DOMAIN w.stack |->
                 [type |-> "UNCLOSED_START", tag |-> w.stack[i].tag,
                  line |-> w.stack[i].line]],
             totalTags |-> Len(evs)]

\* C18: whatever the files scanned before it and whatever they left open, a
\* file yields the result it yields when processed alone, from an empty stack.
C18_ResultDependsOnFileOnly ==
    [][AtFile => result' = AloneResult(allFiles[fileIdx])]_vars

\* a well nested file has been scanned right after a file that left two
\* frames open
C18_Witness ==
    /\ mpc = "files"
    /\ fileIdx > 2
    /\ FileEntry(fileIdx - 2).kind = "file"
    /\ FileEntry(fileIdx - 2).text = OpenAB
    /\ FileEntry(fileIdx - 1).kind = "file"
    /\ FileEntry(fileIdx - 1).text = NestedAB
    /\ result # Null
    /\ result.errors = <<>>
    /\ Len(result.nestedPairs) = 1
    /\ stack = <<>>

\* the findings of the first k files, each with the relative path of its file
RECURSIVE FindingsUpTo(_, _)
FindingsUpTo(k, field) ==
    IF k = 0 THEN <<>>
    ELSE LET r == AloneResult(allFiles[k])
             own == IF r = Null THEN <<>>
                    ELSE IF field = "errors" THEN r.errors ELSE r.nestedPairs
         IN FindingsUpTo(k - 1, field)
                \o [i \in DOMAIN own |-> [file |-> Tail(allFiles[k])] @@ own[i]]

\* C19: the aggregated lists hold every error and every NestedPair of every
\* file scanned so far exactly once, file after file and in the file's own
\* order, identical findings included.
C19_AggregationKeepsEveryFinding ==
    mpc \in {"files", "done"} =>
        /\ allErrors = FindingsUpTo(fileIdx - 1, "errors")
        /\ allNested = FindingsUpTo(fileIdx - 1, "nestedPairs")

\* the report of a scan holds the same error twice and several pairs
C19_Witness ==
    /\ mpc = "done"
    /\ \E i, j \in DOMAIN allErrors : i < j /\ allErrors[i] = allErrors[j]
    /\ Len(allNested) >= 2

(***************************************************************************)
(* find-duplicate-start-tags.js: extractStartTags and main                 *)
(***************************************************************************)
\* START_TAG_PATTERN.exec(content): the search starts at the pattern's
\* lastIndex (0-based, as in JavaScript); a match leaves lastIndex behind the
\* match, a failure sets it to 0
ExecGlobal(s, last) ==
    LET m == Exec(s, last + 1, "START")
    IN IF m.matched THEN [match |-> m, lastIndex |-> m.lastIndex - 1]
       ELSE [match |-> m, lastIndex |-> 0]

\* tags.push({tag: match[1].trim(), file: filePath, fullMatch: match[0]})
StartTag(m, s, file) ==
    [tag |-> Trim(m.group), file |-> file,
     fullMatch |-> SubSeq(s, m.index, m.lastIndex - 1)]

\* variant: "if" in place of "while", one exec per call
ExtractLoopFirstOnly(s, file, last, tags) ==
    LET r == ExecGlobal(s, last)
    IN IF r.match.matched
       THEN [tags |-> Append(tags, StartTag(r.match, s, file)),
             lastIndex |-> r.lastIndex]
       ELSE [tags |-> tags, lastIndex |-> r.lastIndex]

\* while ((match = START_TAG_PATTERN.exec(content)) !== null) { ... }
RECURSIVE ExtractLoop(_, _, _, _)
ExtractLoop(s, file, last, tags) ==
    LET r == ExecGlobal(s, last)
    IN IF r.match.matched
       THEN ExtractLoop(s, file, r.lastIndex, Append(tags, StartTag(r.match, s, file)))
       ELSE [tags |-> tags, lastIndex |-> r.lastIndex]

\* variant: the tags of all the markers the line-scoped tokenizer finds
extractStartTagsAllMarkers(es, path, last) ==
    LET evs == ParseFile(es, path)
    IN [tags |-> [i \in DOMAIN evs |->
                     [tag |-> evs[i].tag, file |-> path, fullMatch |-> <<>>]],
        lastIndex |-> last]

\* extractStartTags: the tags of a file and the lastIndex the call leaves; a
\* file that cannot be read gives [] before the pattern is used
extractStartTags(es, path, last) ==
    LET r == ReadFileSync(es, path)
    IN IF r.threw THEN [tags |-> <<>>, lastIndex |-> last]
       ELSE ExtractLoop(r.text, path, last, <<>>)

\* names every object inherits from Object.prototype (among them); each is a
\* function, hence truthy
ObjectPrototypeNames ==
    {<<"v", "a", "l", "u", "e", "O", "f">>,
     <<"t", "o", "S", "t", "r", "i", "n", "g">>,
     <<"c", "o", "n", "s", "t", "r", "u", "c", "t", "o", "r">>}

\* key is an own property of the object (a sequence of [key, supers] in
\* insertion order, the order Object.entries lists them in)
OwnKey(obj, key) == \E i \in DOMAIN obj : obj[i].key = key

\* bySubstring[key].add(superstring) on an own property
AddSuper(obj, key, superstring) ==
    [i \in DOMAIN obj |->
        IF obj[i].key = key
        THEN [key |-> key, supers |-> obj[i].supers \cup {superstring}]
        ELSE obj[i]]

\* substringPairs.forEach(pair => { if (!bySubstring[pair.substring]) ...;
\* bySubstring[pair.substring].add(pair.superstring) }): for a key that is not
\* an own property but an inherited one the test finds a function, no Set is
\* made, and .add is not a function: TypeError
RECURSIVE GroupFrom(_, _, _)
GroupFrom(pairs, i, obj) ==
    IF i > Len(pairs) THEN [threw |-> FALSE, obj |-> obj]
    ELSE LET key == pairs[i].substring
         IN IF OwnKey(obj, key)
            THEN GroupFrom(pairs, i + 1, AddSuper(obj, key, pairs[i].superstring))
            ELSE IF key \in ObjectPrototypeNames THEN [threw |-> TRUE, obj |-> obj]
            ELSE GroupFrom(pairs, i + 1,
                           Append(obj, [key |-> key,
                                        supers |-> {pairs[i].superstring}]))

\* .map(([sub, supers]) => ({ substring: sub, superstrings: [...supers].sort() }))
GroupEntries(obj) ==
    [i \in DOMAIN obj |->
        [substring |-> obj[i].key, superstrings |-> SortStrings(obj[i].supers)]]

\* x put behind the elements that do not come after it: b before a only when
\* b.superstrings.length - a.superstrings.length < 0 (Array.prototype.sort is
\* stable)
RECURSIVE InsertByCount(_, _)
InsertByCount(sorted, x) ==
    IF sorted = <<>> THEN <<x>>
    ELSE IF Len(x.superstrings) > Len(Head(sorted).superstrings)
         THEN <<x>> \o sorted
         ELSE <<Head(sorted)>> \o InsertByCount(Tail(sorted), x)

\* .sort((a, b) => b.superstrings.length - a.superstrings.length)
RECURSIVE SortByCount(_, _, _)
SortByCount(groups, i, sorted) ==
    IF i > Len(groups) THEN sorted
    ELSE SortByCount(groups, i + 1, InsertByCount(sorted, groups[i]))

OO == <<"o", "o">>
ValueOf == <<"v", "a", "l", "u", "e", "O", "f">>

\* the file contents the substring tool is run on
DupContents ==
    {Marker("START", Foo),
     Marker("START", FooBar) \o <<NL>> \o Marker("START", Foo),
     Marker("START", OO),
     Marker("START", <<" ">>),
     Marker("END", Baz),
     <<"[">> \o Keyword("START") \o <<NL>> \o Baz \o <<"]">>,
     Marker("START", ValueOf) \o <<NL>> \o Marker("START", ValueOf \o <<"_">>)}

DupEntries ==
    [kind : {"file"}, text : DupContents]
        \cup [kind : {"unreadable", "nostat"}, text : {<<>>}]

InitDup ==
    /\ NestIdle
    /\ SubIdle
    /\ entries \in Listings(DupEntries)
    /\ mpc = "list"
    /\ allFiles = <<>>
    /\ fileIdx = 1
    /\ allNested = <<>>
    /\ allErrors = <<>>
    /\ filesWithTags = 0
    /\ regexLastIndex = 0
    /\ bySubstring = <<>>
    /\ sortedSubstrings = <<>>

dupFrame == <<entries, allNested, allErrors, filesWithTags, spc>>

\* const allFiles = getAllFiles(rootDir)
DupListFiles ==
    /\ mpc = "list"
    /\ LET r == getAllFiles(RootDir, entries)
       IN IF r.threw
          THEN mpc' = "crashed" /\ UNCHANGED allFiles
          ELSE mpc' = "extract" /\ allFiles' = r.files
    /\ UNCHANGED <<fileIdx, allTags, regexLastIndex, substringPairs, bySubstring,
                   sortedSubstrings>>
    /\ UNCHANGED dupFrame
    /\ UNCHANGED nestVars

\* allFiles.forEach(file => { const tags = extractStartTags(file);
\* allTags.push(...tags) })
ExtractFile ==
    /\ mpc = "extract"
    /\ fileIdx <= Len(allFiles)
    /\ LET r == extractStartTags(entries, allFiles[fileIdx], regexLastIndex)
       IN /\ allTags' = allTags \o r.tags
          /\ regexLastIndex' = r.lastIndex
    /\ fileIdx' = fileIdx + 1
    /\ UNCHANGED <<mpc, allFiles, substringPairs, bySubstring, sortedSubstrings>>
    /\ UNCHANGED dupFrame
    /\ UNCHANGED nestVars

\* const substringPairs = findSubstringTags(allTags)
FindPairs ==
    /\ mpc = "extract"
    /\ fileIdx > Len(allFiles)
    /\ substringPairs' = findSubstringTags(allTags)
    /\ mpc' = "group"
    /\ UNCHANGED <<allFiles, fileIdx, allTags, regexLastIndex, bySubstring,
                   sortedSubstrings>>
    /\ UNCHANGED dupFrame
    /\ UNCHANGED nestVars

\* const bySubstring = {}; substringPairs.forEach(...); const sortedSubstrings
GroupPairs ==
    /\ mpc = "group"
    /\ LET r == GroupFrom(substringPairs, 1, <<>>)
       IN /\ bySubstring' = r.obj
          /\ IF r.threw
             THEN mpc' = "crashed" /\ UNCHANGED sortedSubstrings
             ELSE /\ mpc' = "done"
                  /\ sortedSubstrings' = SortByCount(GroupEntries(r.obj), 1, <<>>)
    /\ UNCHANGED <<allFiles, fileIdx, allTags, regexLastIndex, substringPairs>>
    /\ UNCHANGED dupFrame
    /\ UNCHANGED nestVars

NextDup == DupListFiles \/ ExtractFile \/ FindPairs \/ GroupPairs

SpecDup == InitDup /\ [][NextDup]_vars

(***************************************************************************)
(* Claims about the tokenizers and the substring tool                      *)
(***************************************************************************)
TrimmedNonEmpty(t) == t # <<>> /\ ~IsSpace(t[1]) /\ ~IsSpace(t[Len(t)])

\* the events parseTagEvents gives for the files of the tree
TreeEvents ==
    UNION {LET evs == ParseFile(entries, allFiles[k])
           IN {evs[i] : i \in DOMAIN evs} : k \in DOMAIN allFiles}

\* C11: every event of parseTagEvents and every tag of extractStartTags has a
\* tag that is non-empty and has no white space at either end, also for a
\* marker with only white space after the keyword.
C11_TagsNonEmptyTrimmed ==
    /\ \A i \in DOMAIN allTags : TrimmedNonEmpty(allTags[i].tag)
    /\ \A e \in TreeEvents : TrimmedNonEmpty(e.tag)

\* C12: every pair reported by extractStartTags followed by findSubstringTags
\* has a substring that is non-empty, differs from the superstring and is
\* strictly shorter than it.
C12_SubstringProperNonEmpty ==
    \A i \in DOMAIN substringPairs :
        /\ substringPairs[i].substring # <<>>
        /\ substringPairs[i].substring # substringPairs[i].superstring
        /\ Len(substringPairs[i].substring) < Len(substringPairs[i].superstring)

\* every file has been through extractStartTags and the detector has run
Extracted == mpc = "group"

\* no match of extractStartTags runs over a line break
NoSpan ==
    \A i \in DOMAIN allTags :
        \A j \in DOMAIN allTags[i].fullMatch : allTags[i].fullMatch[j] # NL

\* C13 as stated: the detector's input holds a tag name exactly when some file
\* yields a marker event, START or END, of the line-scoped tokenizer with it.
C13_InputIsAllMarkerTags ==
    Extracted => TagNames(allTags) = {e.tag : e \in TreeEvents}

\* C13 amended: only START markers feed the detector, found by the pattern on
\* the whole content. Every input tag is the trimmed group of a START match in
\* its file; when no match runs over a line break the input is exactly the set
\* of tags of the START events of the line-scoped tokenizer. END markers add
\* no tag name.
C13_InputIsStartMarkerTags ==
    Extracted =>
        /\ \A i \in DOMAIN allTags :
               \E k \in DOMAIN allFiles :
                   /\ allTags[i].file = allFiles[k]
                   /\ FileEntry(k).kind = "file"
                   /\ \E p \in DOMAIN FileEntry(k).text :
                          LET m == MatchAt(FileEntry(k).text, p, "START")
                          IN m.matched /\ allTags[i].tag = Trim(m.group)
        /\ NoSpan =>
               TagNames(allTags) = {e.tag : e \in {x \in TreeEvents : x.type = "START"}}

\* a tree with an END marker for baz and a START marker for foo has been read:
\* foo is in the input, baz is not
C13_Witness ==
    /\ Extracted
    /\ NoSpan
    /\ \E e \in TreeEvents : e.type = "END" /\ e.tag = Baz
    /\ \E e \in TreeEvents : e.type = "START" /\ e.tag = Foo
    /\ Foo \in TagNames(allTags)
    /\ Baz \notin TagNames(allTags)

\* what extractStartTags pushed for the k-th file
FileTags(k) == SelectSeq(allTags, LAMBDA t : t.file = allFiles[k])

\* the tags of a text when the pattern starts at its beginning
TagsFromStart(text) ==
    LET ms == MatchesFrom(text, 1, "START")
    IN [i \in DOMAIN ms |->
           [tag |-> Trim(ms[i].group),
            fullMatch |-> SubSeq(text, ms[i].index, ms[i].lastIndex - 1)]]

WithoutFile(tags) ==
    [i \in DOMAIN tags |-> [tag |-> tags[i].tag, fullMatch |-> tags[i].fullMatch]]

EventsWithoutFile(evs) ==
    [i \in DOMAIN evs |-> [type |-> evs[i].type, tag |-> evs[i].tag, line |-> evs[i].line]]

\* C17: between two calls of extractStartTags the lastIndex of
\* START_TAG_PATTERN is 0; every file read gives the tags its content has from
\* its first character on, so two files of the same content give the same
\* tags, and so do they give the same events with parseTagEvents.
C17_TokenizingLeavesNoState ==
    /\ regexLastIndex = 0
    /\ mpc \in {"extract", "group", "done"} =>
           /\ \A k \in 1..(fileIdx - 1) :
                  FileEntry(k).kind = "file" =>
                      WithoutFile(FileTags(k)) = TagsFromStart(FileEntry(k).text)
           /\ \A j, k \in 1..(fileIdx - 1) :
                  FileEntry(j).text = FileEntry(k).text /\ FileEntry(j).kind = FileEntry(k).kind =>
                      /\ WithoutFile(FileTags(j)) = WithoutFile(FileTags(k))
                      /\ EventsWithoutFile(ParseFile(entries, allFiles[j]))
                             = EventsWithoutFile(ParseFile(entries, allFiles[k]))

\* two files of the same content, two markers each, have been read one after
\* the other
C17_Witness ==
    /\ mpc = "extract"
    /\ fileIdx = 3
    /\ FileEntry(1).kind = "file"
    /\ FileEntry(1).text = FileEntry(2).text
    /\ Len(FileTags(1)) = 2
    /\ Len(FileTags(2)) = 2

\* the superstrings reported with substring s
SupersOf(s) ==
    {substringPairs[i].superstring :
         i \in {j \in DOMAIN substringPairs : substringPairs[j].substring = s}}

\* C20: once the tool has ended, every substring of a reported pair, whatever
\* string it is, has exactly one group, holding exactly the superstrings
\* reported with it, every group belongs to a reported substring, and the
\* groups are in non-increasing order of their number of superstrings.
C20_GroupsBySubstring ==
    mpc \in {"done", "crashed"} =>
        /\ \A i \in DOMAIN substringPairs :
               LET s == substringPairs[i].substring
                   G == {g \in DOMAIN sortedSubstrings : sortedSubstrings[g].substring = s}
               IN /\ Cardinality(G) = 1
                  /\ \A g \in G :
                         /\ {sortedSubstrings[g].superstrings[n] :
                                 n \in DOMAIN sortedSubstrings[g].superstrings} = SupersOf(s)
                         /\ Len(sortedSubstrings[g].superstrings) = Cardinality(SupersOf(s))
        /\ \A g \in DOMAIN sortedSubstrings : SupersOf(sortedSubstrings[g].substring) # {}
        /\ \A g \in 1..(Len(sortedSubstrings) - 1) :
               Len(sortedSubstrings[g].superstrings)
                   >= Len(sortedSubstrings[g + 1].superstrings)

(***************************************************************************)
(* Claims about emitted pairs, line numbers and frames                     *)
(***************************************************************************)
\* C21: a NestedPair, once emitted, never changes: every later step of the
\* file's processing (push, pop, error, the closing report) leaves each pair
\* already in nestedPairs as it was, outer, inner and depth, and the report
\* returns them as they are.
C21_EmittedPairsNeverChange ==
    [][/\ Len(nestedPairs') >= Len(nestedPairs)
       /\ \A i \in DOMAIN nestedPairs :
              /\ nestedPairs'[i].outer = nestedPairs[i].outer
              /\ nestedPairs'[i].inner = nestedPairs[i].inner
              /\ nestedPairs'[i].depth = nestedPairs[i].depth
       /\ (pc = "loop" /\ pc' = "done") => result'.nestedPairs = nestedPairs]_vars

\* two pairs were emitted, then a mismatched END popped a frame, and the file
\* has been reported
C21_Witness ==
    /\ pc = "done"
    /\ result # Null
    /\ Len(nestedPairs) >= 2
    /\ nestedPairs[1].depth < nestedPairs[2].depth
    /\ \E i \in DOMAIN errors : errors[i].type = "MISMATCHED_END"
    /\ Len(stack) < nestedPairs[2].depth

\* the number of line breaks among the first n characters of a text
LineBreaksBefore(text, n) == Cardinality({i \in 1..n : text[i] = NL})

\* a marker of the type starts at position q of the text, on one line
MarkerAt(text, q, type) ==
    LET m == MatchAt(text, q, type)
    IN m.matched /\ \A i \in q..(m.lastIndex - 1) : text[i] # NL

\* C22: every event of parseTagEvents carries the 1-based number of the line
\* its marker is on (one more than the number of line breaks before the
\* marker), every marker of the content has its event, and the line numbers
\* never decrease along the event sequence.
C22_LineNumbersOneBasedAscending ==
    pc \in {"loop", "done"} =>
        /\ \A i \in DOMAIN events :
               /\ events[i].line >= 1
               /\ \E q \in DOMAIN content :
                      /\ MarkerAt(content, q, events[i].type)
                      /\ events[i].tag = Trim(MatchAt(content, q, events[i].type).group)
                      /\ events[i].line = LineBreaksBefore(content, q - 1) + 1
        /\ \A q \in DOMAIN content : \A type \in {"START", "END"} :
               MarkerAt(content, q, type) =>
                   \E i \in DOMAIN events :
                       /\ events[i].type = type
                       /\ events[i].line = LineBreaksBefore(content, q - 1) + 1
        /\ Len(events) =
               Cardinality({<<q, type>> \in (DOMAIN content) \X {"START", "END"} :
                                MarkerAt(content, q, type)})
        /\ \A i \in 1..(Len(events) - 1) : events[i].line <= events[i + 1].line

\* a file with two markers on its first line and one on its third
C22_Witness ==
    /\ pc = "loop"
    /\ Len(events) = 3
    /\ events[1].line = 1
    /\ events[2].line = 1
    /\ events[3].line = 3

\* the errors of one type among errs
ErrorCount(errs, type) == Cardinality({i \in DOMAIN errs : errs[i].type = type})

\* C24: frames are conserved. At every step of the walk the stack holds as
\* many frames as STARTs were processed minus the ENDs processed on a
\* non-empty stack (the ENDs that gave no UNMATCHED_END); an END removes at
\* most one frame; and in the report (START events) - (UNCLOSED_START errors)
\* = (END events) - (UNMATCHED_END errors).
C24_FramesConserved ==
    [][/\ pc' = "loop" =>
              Len(stack') =
                  Count(SubSeq(events', 1, idx' - 1), "START")
                      - (Count(SubSeq(events', 1, idx' - 1), "END")
                             - ErrorCount(errors', "UNMATCHED_END"))
       /\ AtEnd =>
              /\ Len(stack') \in {Len(stack), Len(stack) - 1}
              /\ Len(stack') = Len(stack) <=> Len(stack) = 0
       /\ AtStart => Len(stack') = Len(stack) + 1
       /\ (pc = "loop" /\ pc' = "done") =>
              /\ Count(events, "START") - ErrorCount(result'.errors, "UNCLOSED_START")
                     = Count(events, "END") - ErrorCount(result'.errors, "UNMATCHED_END")
              /\ ErrorCount(result'.errors, "UNCLOSED_START") = Len(stack)]_vars

\* a file with an unmatched END, a popped frame and an unclosed START has
\* been reported
C24_Witness ==
    /\ pc = "done"
    /\ result # Null
    /\ ErrorCount(result.errors, "UNMATCHED_END") = 1
    /\ ErrorCount(result.errors, "UNCLOSED_START") = 1
    /\ Count(events, "START") = 2
    /\ Count(events, "END") = 2

\* the indices of the START events still open after the first k events, in
\* the order they were opened: a START opens, an END closes the last opened
RECURSIVE OpenIndices(_, _)
OpenIndices(evs, k) ==
    IF k = 0 THEN <<>>
    ELSE LET before == OpenIndices(evs, k - 1)
         IN IF evs[k].type = "START" THEN Append(before, k)
            ELSE IF before = <<>> THEN before
            ELSE SubSeq(before, 1, Len(before) - 1)

\* the indices of the START events met while a START was open, ascending
RECURSIVE NestedStartIndices(_, _)
NestedStartIndices(evs, k) ==
    IF k = 0 THEN <<>>
    ELSE IF evs[k].type = "START" /\ OpenIndices(evs, k - 1) # <<>>
         THEN Append(NestedStartIndices(evs, k - 1), k)
         ELSE NestedStartIndices(evs, k - 1)

\* C25: the outer of a NestedPair is a START event that comes before the inner
\* in the event sequence, is still open when the inner is processed and is
\* the one opened last among those; a file has as many pairs as START events
\* processed while a START was open, in the order of their inner events.
C25_OuterIsInnermostOpenStart ==
    [][/\ AtStart =>
              LET open == OpenIndices(events, idx - 1)
              IN /\ open = <<>> => nestedPairs' = nestedPairs
                 /\ open # <<>> =>
                        /\ Len(nestedPairs') = Len(nestedPairs) + 1
                        /\ Last(open) < idx
                        /\ events[Last(open)].type = "START"
                        /\ \A j \in DOMAIN open : open[j] <= Last(open)
                        /\ Last(nestedPairs').outer = events[Last(open)]
                        /\ Last(nestedPairs').inner = events[idx]
       /\ pc' = "loop" =>
              LET ks == NestedStartIndices(events', idx' - 1)
              IN /\ Len(nestedPairs') = Len(ks)
                 /\ \A i \in DOMAIN ks : nestedPairs'[i].inner = events'[ks[i]]]_vars

\* a START has been paired with the START opened before a region that was
\* closed in between: a, b opened, b closed, then a third START inside a
C25_Witness ==
    /\ pc = "loop"
    /\ idx = 5
    /\ events[1].type = "START"
    /\ events[2].type = "START"
    /\ events[3].type = "END"
    /\ events[4].type = "START"
    /\ events[1].tag # events[2].tag
    /\ Len(nestedPairs) = 2
    /\ nestedPairs[2].outer = events[1]
    /\ nestedPairs[2].inner = events[4]

(***************************************************************************)
(* Claims about the relation findSubstringTags reports                     *)
(***************************************************************************)
Reverse(seq) == [i \in DOMAIN seq |-> seq[Len(seq) + 1 - i]]

\* (a, b) is among the pairs reported
Reported(a, b) ==
    \E i \in DOMAIN substringPairs :
        substringPairs[i].substring = a /\ substringPairs[i].superstring = b

\* C26: the pairs reported form a strict partial order on the distinct tag
\* names: no (a, a), never both (a, b) and (b, a), and (a, c) whenever (a, b)
\* and (b, c); the list returned is the same for the tags in reverse order and
\* for the tags given twice.
C26_StrictPartialOrder ==
    spc = "done" =>
        LET names == TagNames(allTags)
        IN /\ \A a \in names : ~Reported(a, a)
           /\ \A a, b \in names : ~(Reported(a, b) /\ Reported(b, a))
           /\ \A a, b, c \in names :
                  Reported(a, b) /\ Reported(b, c) => Reported(a, c)
           /\ \A i \in DOMAIN substringPairs :
                  /\ substringPairs[i].substring \in names
                  /\ substringPairs[i].superstring \in names
           /\ \A i, j \in DOMAIN substringPairs :
                  substringPairs[i] = substringPairs[j] => i = j
           /\ substringPairs = findSubstringTags(Reverse(allTags))
           /\ substringPairs = findSubstringTags(allTags \o allTags)

\* the detector has run on foo_bar, oo, foo, given in that order: oo is in
\* foo, foo in foo_bar, and oo in foo_bar
C26_Witness ==
    /\ spc = "done"
    /\ Len(allTags) = 3
    /\ allTags[1].tag = FooBar
    /\ allTags[2].tag = OO
    /\ allTags[3].tag = Foo
    /\ Reported(OO, Foo)
    /\ Reported(Foo, FooBar)
    /\ Reported(OO, FooBar)
    /\ Len(substringPairs) = 3

(***************************************************************************)
(* findNestedTags on contents with tags and keywords differing in case     *)
(***************************************************************************)
MaxCaseChunks == 3

FooCap == <<"F", "o", "o">>

\* bracket content whose keyword is not exactly START or END
LowerStart == <<"[", "s", "t", "a", "r", "t", " ", "x", "]">>
BeginX == <<"[", "B", "E", "G", "I", "N", " ", "x", "]">>

CaseChunks ==
    {Marker("START", FooCap), Marker("START", Foo), Marker("END", FooCap),
     Marker("END", Foo), LowerStart, BeginX, <<NL>>}

CaseContents ==
    {Flatten(cs) : cs \in UNION {[1..n -> CaseChunks] : n \in 0..MaxCaseChunks}}

InitCase ==
    /\ filePath \in FilePaths
    /\ content \in CaseContents
    /\ pc = "start"
    /\ events = <<>>
    /\ idx = 1
    /\ stack = <<>>
    /\ nestedPairs = <<>>
    /\ errors = <<>>
    /\ result = Null
    /\ SubIdle
    /\ TreeIdle

SpecCase == InitCase /\ [][Next]_vars

\* character for character the same
SameChars(a, b) == Len(a) = Len(b) /\ \A i \in DOMAIN a : a[i] = b[i]

\* the places of a text where the literal characters lit stand
Occurrences(text, lit) ==
    {q \in DOMAIN text :
         q + Len(lit) - 1 <= Len(text) /\ SubSeq(text, q, q + Len(lit) - 1) = lit}

StartLiteral == <<"[", "S", "T", "A", "R", "T", " ">>
EndLiteral == <<"[", "E", "N", "D", " ">>

\* C23: tags are compared character for character, with no case folding: an
\* END on a non-empty stack adds no error exactly when its tag has the very
\* characters of the top frame's tag, and a MISMATCHED_END otherwise;
\* [START Foo] followed by [END foo] ends with one MISMATCHED_END; only bracket
\* content with the exact keyword START or END gives an event, so [start x]
\* and [BEGIN x] give none.
C23_TagsAndKeywordsExact ==
    [][/\ (AtEnd /\ stack # <<>>) =>
              /\ errors' = errors <=> SameChars(Top(stack).tag, events[idx].tag)
              /\ ~SameChars(Top(stack).tag, events[idx].tag) =>
                     errors' = Append(errors,
                                      [type |-> "MISMATCHED_END",
                                       expected |-> Top(stack).tag,
                                       got |-> events[idx].tag,
                                       startLine |-> Top(stack).line,
                                       endLine |-> events[idx].line])
       /\ pc = "start" =>
              /\ Len(events') = Cardinality(Occurrences(content, StartLiteral))
                                    + Cardinality(Occurrences(content, EndLiteral))
              /\ \A i \in DOMAIN events' : events'[i].tag \in {Foo, FooCap}
       /\ (/\ pc = "loop"
           /\ pc' = "done"
           /\ content = Marker("START", FooCap) \o <<NL>> \o Marker("END", Foo)) =>
              result'.errors = <<[type |-> "MISMATCHED_END", expected |-> FooCap,
                                  got |-> Foo, startLine |-> 1, endLine |-> 2]>>]_vars

\* [START Foo] then [END foo] has been reported with its MISMATCHED_END
C23_Witness ==
    /\ pc = "done"
    /\ content = Marker("START", FooCap) \o <<NL>> \o Marker("END", Foo)
    /\ result # Null
    /\ Len(result.errors) = 1
    /\ result.errors[1].type = "MISMATCHED_END"
====
